---- MODULE Spec2Model ----
(***************************************************************************)
(* Model of state_capitol_verifier.py: a sequential batch pipeline that    *)
(* loads a JSON array of records, geocodes every address through the       *)
(* Census geocoder, writes the corrected records and re-checks the file.   *)
(*                                                                         *)
(* Coordinates are integers counting 1e-7 degrees, so one more decimal     *)
(* than round(.., 6) keeps: a value rounded to 6 decimals is a multiple    *)
(* of 10.                                                                  *)
(***************************************************************************)
EXTENDS Integers, Sequences, FiniteSets, TLC

VARIABLES infile, outfile, pc, records, i, response, results, failures, error, exit, stdout, calls, trace, run, service, first

vars == <<infile, outfile, pc, records, i, response, results, failures, error, exit, stdout, calls, trace, run, service, first>>

(***************************************************************************)
(* Bounds of the model.                                                    *)
(***************************************************************************)
\* longest input array of the pipeline specifications
MaxRecs == 2
\* longest addressMatches list of a geocoder response
MaxMatches == 2
\* longest record list handed to unique_latlon in SpecUnique
MaxLen == 3

(***************************************************************************)
(* JSON values.  An array element is an object (a dict, here a function    *)
(* from its keys) or something else; a document is what a file holds.      *)
(***************************************************************************)
Obj(f) == [kind |-> "object", fields |-> f]

NonObject == [kind |-> "number", fields |-> [value |-> 1]]

IsDict(v) == v.kind = "object"

HasKey(v, k) == k \in DOMAIN v.fields

\* rec[k] = val on a dict: the key is added when absent, every other key kept
SetItem(v, k, val) == Obj([key \in (DOMAIN v.fields) \cup {k} |-> IF key = k THEN val ELSE v.fields[key]])

Doc(k, xs) == [kind |-> k, items |-> xs]

Absent == Doc("absent", <<>>)

\* json.dumps(records, indent=2) written to the output path: the text of a JSON array
Dumps(recs) == Doc("array", recs)

SeqsUpTo(S, n) == UNION {[1..k -> S] : k \in 0..n}

Last(s) == s[Len(s)]

(***************************************************************************)
(* Input data.                                                             *)
(***************************************************************************)
WellFormed == {Obj([state |-> "OH", address |-> "a1", latitude |-> 0, longitude |-> 0, capital |-> "Columbus"]), Obj([state |-> "TX", address |-> "a2", latitude |-> 15, longitude |-> 25, capital |-> "Austin"])}

Malformed == {NonObject, Obj([state |-> "OH", latitude |-> 0, longitude |-> 0]), Obj([address |-> "a1", latitude |-> 0, longitude |-> 0]), Obj([state |-> "TX", address |-> "a2"])}

InputElems == WellFormed \cup Malformed

InputDocs == {Doc("array", xs) : xs \in SeqsUpTo(InputElems, MaxRecs)} \cup {Doc("object", <<>>), Doc("invalid", <<>>)}

\* what the output path may hold before the run
OldOutputs == {Absent, Doc("array", <<Obj([state |-> "old"])>>)}

(***************************************************************************)
(* The geocoding service: what one GET may come back with.                 *)
(***************************************************************************)
Entries == {[matchedAddress |-> "A1", coordinates |-> [x |-> -829987943, y |-> 399613318]], [matchedAddress |-> "A2", coordinates |-> [x |-> -977403512, y |-> 302746896]]}

Body(hr, hm, ms) == [hasResult |-> hr, hasMatches |-> hm, addressMatches |-> ms]

Bodies == {Body(FALSE, FALSE, <<>>), Body(TRUE, FALSE, <<>>)} \cup {Body(TRUE, TRUE, ms) : ms \in SeqsUpTo(Entries, MaxMatches)}

Reply(k, b) == [kind |-> k, body |-> b]

NoReply == Reply("none", Body(FALSE, FALSE, <<>>))

\* requests.get raises on a transport failure, raise_for_status on a non-2xx status
Failures == {Reply("transport_error", Body(FALSE, FALSE, <<>>)), Reply("http_error", Body(FALSE, FALSE, <<>>))}

Replies == {Reply("ok", b) : b \in Bodies} \cup Failures

(***************************************************************************)
(* Helpers of the script.                                                  *)
(***************************************************************************)
Returned(v) == [exc |-> "", value |-> v]

Raised(e) == [exc |-> e, value |-> <<>>]

\* json.load, then the isinstance(data, list) test: nothing looks at the elements
load_json(doc) == IF doc.kind = "absent" THEN Raised("FileNotFoundError") ELSE IF doc.kind = "invalid" THEN Raised("JSONDecodeError") ELSE IF doc.kind # "array" THEN Raised("ValueError") ELSE Returned(doc.items)

None == [tag |-> "None", exc |-> "", std_addr |-> "", lat |-> 0, lon |-> 0]

Match(a, la, lo) == [tag |-> "match", exc |-> "", std_addr |-> a, lat |-> la, lon |-> lo]

Raise(e) == [tag |-> "raise", exc |-> e, std_addr |-> "", lat |-> 0, lon |-> 0]

\* r.json().get("result", {}).get("addressMatches", [])
Matches(body) == IF body.hasResult /\ body.hasMatches THEN body.addressMatches ELSE <<>>

\* a faulty variant: the last entry instead of the first
BestLast(matches) == matches[Len(matches)]

\* best = matches[0]
Best(matches) == matches[1]

\* return std_addr, float(coords["y"]), float(coords["x"])
Extract(best) == Match(best.matchedAddress, best.coordinates.y, best.coordinates.x)

\* a faulty variant: a failed request is swallowed and reported as no match
geocodeQuiet(address, reply) == IF reply.kind # "ok" \/ Matches(reply.body) = <<>> THEN None ELSE Extract(Best(Matches(reply.body)))

geocode(address, reply) == IF reply.kind = "transport_error" THEN Raise("ConnectionError") ELSE IF reply.kind = "http_error" THEN Raise("HTTPError") ELSE IF Matches(reply.body) = <<>> THEN None ELSE Extract(Best(Matches(reply.body)))

Abs(v) == IF v < 0 THEN -v ELSE v

\* round(v, 6): the nearest multiple of 1e-6 (ten units).  A double never lies exactly
\* halfway between two such multiples, and no coordinate below ends in 5; the tie rule
\* (to the even multiple) only makes the operator total.
Round6(v) == LET q == Abs(v) \div 10  r == Abs(v) % 10  m == IF r > 5 \/ (r = 5 /\ q % 2 = 1) THEN q + 1 ELSE q IN IF v < 0 THEN -(m * 10) ELSE m * 10

\* (r["latitude"], r["longitude"])
LatLon(r) == <<r.fields.latitude, r.fields.longitude>>

\* a faulty variant: the latitudes alone are compared
unique_lat(recs) == Cardinality({recs[k].fields.latitude : k \in 1..Len(recs)}) = Len(recs)

\* len({(r["latitude"], r["longitude"]) for r in records}) == len(records)
unique_latlon(recs) == Cardinality({LatLon(recs[k]) : k \in 1..Len(recs)}) = Len(recs)

\* the subscriptions unique_latlon makes succeed on every record
CanKey(recs) == \A k \in 1..Len(recs) : IsDict(recs[k]) /\ HasKey(recs[k], "latitude") /\ HasKey(recs[k], "longitude")

\* a faulty variant: the state label is left out of the line
FailureLineBare(rec) == rec.fields.address

\* f'{rec["state"]} | {rec["address"]}'
FailureLine(rec) == rec.fields.state \o " | " \o rec.fields.address

\* a faulty variant: the coordinates are stored as the service gave them
CorrectedUnrounded(rec, res) == SetItem(SetItem(SetItem(rec, "address", res.std_addr), "latitude", res.lat), "longitude", res.lon)

\* a faulty variant: the address alone is overwritten
CorrectedAddressOnly(rec, res) == SetItem(rec, "address", res.std_addr)

\* rec["address"] = std_addr; rec["latitude"] = round(lat, 6); rec["longitude"] = round(lon, 6)
Corrected(rec, res) == SetItem(SetItem(SetItem(rec, "address", res.std_addr), "latitude", Round6(res.lat)), "longitude", Round6(res.lon))

(***************************************************************************)
(* The run: main(), one action per stage.                                  *)
(***************************************************************************)
Addresses == {"a1", "a2", "A1", "A2"}

NoFirst == [infile |-> Absent, outfile |-> Absent, stdout |-> <<>>, kind |-> "none"]

\* a process about to execute main() on input document inp, the output path holding old
Start(inp, old) == /\ infile = inp /\ outfile = old /\ pc = "load" /\ records = <<>> /\ i = 1 /\ response = NoReply /\ results = <<>> /\ failures = <<>> /\ error = "" /\ exit = -1 /\ stdout = <<>> /\ calls = <<>> /\ trace = <<>>

Init == /\ \E inp \in InputDocs, old \in OldOutputs : Start(inp, old) /\ run = 1 /\ service = [a \in Addresses |-> NoReply] /\ first = NoFirst

\* an exception nobody catches: the interpreter prints the traceback and exits with status 1
Crash(e) == /\ pc' = "crashed" /\ error' = e /\ exit' = 1

\* line 62-63: records = load_json(inp); print
Load == /\ pc = "load" /\ trace' = Append(trace, "load") /\ LET got == load_json(infile) IN IF got.exc # "" THEN Crash(got.exc) /\ UNCHANGED <<records, stdout>> ELSE /\ records' = got.value /\ stdout' = Append(stdout, "parsed") /\ pc' = (IF got.value = <<>> THEN "write" ELSE "geocode") /\ UNCHANGED <<error, exit>>
        /\ UNCHANGED <<infile, outfile, i, response, results, failures, calls, run, service, first>>

\* rec["address"] can be evaluated
CanCall(rec) == IsDict(rec) /\ HasKey(rec, "address")

\* line 68, the argument: rec["address"] raises before any request is made
BadRecord == /\ pc = "geocode" /\ ~CanCall(records[i]) /\ Crash(IF IsDict(records[i]) THEN "KeyError" ELSE "TypeError")
             /\ UNCHANGED <<infile, outfile, records, i, response, results, failures, stdout, calls, trace, run, service, first>>

\* a faulty variant: an unmatched record has its coordinates cleared
UpdatedReset(rec, res) == IF res.tag = "None" THEN SetItem(SetItem(rec, "latitude", 0), "longitude", 0) ELSE Corrected(rec, res)

\* lines 69-75: the record once the branch on result is through
Updated(rec, res) == IF res.tag = "None" THEN rec ELSE Corrected(rec, res)

\* lines 69-70: the failure list once the branch on result is through
Logged(fs, rec, res) == IF res.tag = "None" THEN Append(fs, FailureLine(rec)) ELSE fs

\* lines 68-75 for the record at position i, the service answering reply
Handle(reply) == LET rec == records[i]  res == geocode(rec.fields.address, reply) IN
                 /\ pc = "geocode" /\ CanCall(rec)
                 /\ calls' = Append(calls, rec.fields.address) /\ response' = reply /\ trace' = Append(trace, "call")
                 /\ IF res.tag = "raise" THEN Crash(res.exc) /\ UNCHANGED <<records, results, failures>>
                    ELSE /\ results' = Append(results, res)
                         /\ IF res.tag = "None" /\ ~HasKey(rec, "state") THEN Crash("KeyError") /\ UNCHANGED <<records, failures>>
                            ELSE records' = [records EXCEPT ![i] = Updated(rec, res)] /\ failures' = Logged(failures, rec, res) /\ pc' = "sleep" /\ UNCHANGED <<error, exit>>
                 /\ UNCHANGED <<infile, outfile, i, stdout, run, first>>

\* the service owes nothing to its earlier answers
Geocode == \E reply \in Replies : Handle(reply) /\ UNCHANGED service

\* a faulty variant: the write of line 79 sits inside the loop body
SleepThenWrite == /\ pc = "sleep" /\ trace' = trace \o <<"sleep", "write">> /\ outfile' = Dumps(records) /\ i' = i + 1 /\ pc' = (IF i + 1 > Len(records) THEN "write" ELSE "geocode")
                  /\ UNCHANGED <<infile, records, response, results, failures, error, exit, stdout, calls, run, service, first>>

\* line 76, then the for statement: the next record or the end of the loop
Sleep == /\ pc = "sleep" /\ trace' = Append(trace, "sleep") /\ i' = i + 1 /\ pc' = (IF i + 1 > Len(records) THEN "write" ELSE "geocode")
         /\ UNCHANGED <<infile, outfile, records, response, results, failures, error, exit, stdout, calls, run, service, first>>

\* lines 79-80: outp.write_text(json.dumps(records, indent=2)); print
Write == /\ pc = "write" /\ outfile' = Dumps(records) /\ trace' = Append(trace, "write") /\ stdout' = Append(stdout, "written") /\ pc' = "reload"
         /\ UNCHANGED <<infile, records, i, response, results, failures, error, exit, calls, run, service, first>>

\* line 79 when the output path cannot be opened for writing
WriteFails == /\ pc = "write" /\ Crash("OSError")
              /\ UNCHANGED <<infile, outfile, records, i, response, results, failures, stdout, calls, trace, run, service, first>>

\* line 83: _ = load_json(outp)
Reload == /\ pc = "reload" /\ trace' = Append(trace, "reload") /\ LET got == load_json(outfile) IN IF got.exc # "" THEN Crash(got.exc) ELSE pc' = "unique" /\ UNCHANGED <<error, exit>>
          /\ UNCHANGED <<infile, outfile, records, i, response, results, failures, stdout, calls, run, service, first>>

\* lines 84-87: the uniqueness verdict on the records in memory
CheckUnique == /\ pc = "unique" /\ trace' = Append(trace, "unique")
               /\ IF ~CanKey(records) THEN Crash(IF \A k \in 1..Len(records) : IsDict(records[k]) THEN "KeyError" ELSE "TypeError") /\ UNCHANGED stdout ELSE stdout' = Append(stdout, IF unique_latlon(records) THEN "unique" ELSE "duplicate") /\ pc' = "report" /\ UNCHANGED <<error, exit>>
               /\ UNCHANGED <<infile, outfile, records, i, response, results, failures, calls, run, service, first>>

\* a faulty variant: unmatched addresses make the run fail
ReportStrict == /\ pc = "report" /\ stdout' = Append(stdout, IF failures # <<>> THEN "not_found" ELSE "all_matched") /\ (IF failures # <<>> THEN Crash("SystemExit") ELSE pc' = "done" /\ exit' = 0 /\ UNCHANGED error)
                /\ UNCHANGED <<infile, outfile, records, i, response, results, failures, calls, trace, run, service, first>>

\* lines 90-95, then main returns and the interpreter exits with status 0
Report == /\ pc = "report" /\ stdout' = Append(stdout, IF failures # <<>> THEN "not_found" ELSE "all_matched") /\ pc' = "done" /\ exit' = 0
          /\ UNCHANGED <<infile, outfile, records, i, response, results, failures, error, calls, trace, run, service, first>>

Next == Load \/ BadRecord \/ Geocode \/ Sleep \/ Write \/ WriteFails \/ Reload \/ CheckUnique \/ Report

Spec == Init /\ [][Next]_vars

\* the interpreter runs the script to its end: a stage that can be taken is taken
FairSpec == Spec /\ WF_vars(Next)

(***************************************************************************)
(* Two runs in a row against a service with stable results: the same       *)
(* answer to the same query, whichever run asks.                           *)
(***************************************************************************)
ValidDocs == {Doc("array", xs) : xs \in SeqsUpTo(WellFormed, MaxRecs)}

InitTwo == /\ \E inp \in ValidDocs : Start(inp, Absent) /\ run = 1 /\ service = [a \in Addresses |-> NoReply] /\ first = NoFirst

\* answers of at most one match, enough to tell a stable service from a changing one
ShortReplies == {r \in Replies : Len(r.body.addressMatches) <= 1}

\* the answer to a query already made is the one given then
Stable(a) == IF service[a] = NoReply THEN ShortReplies ELSE {service[a]}

GeocodeStable == /\ pc = "geocode" /\ CanCall(records[i])
                 /\ \E reply \in Stable(records[i].fields.address) : Handle(reply) /\ service' = [service EXCEPT ![records[i].fields.address] = reply]

\* a new process executing main() on inp; the files and the service stay as they are
Restart(inp, k) == /\ pc = "done" /\ run = 1 /\ run' = 2 /\ first' = [infile |-> infile, outfile |-> outfile, stdout |-> stdout, kind |-> k]
                   /\ infile' = inp /\ pc' = "load" /\ records' = <<>> /\ i' = 1 /\ response' = NoReply /\ results' = <<>> /\ failures' = <<>> /\ error' = "" /\ exit' = -1 /\ stdout' = <<>> /\ calls' = <<>> /\ trace' = <<>>
                   /\ UNCHANGED <<outfile, service>>

\* the second run reads what the first run wrote
RerunOnOutput == Restart(outfile, "output")

CoordInputs == {<<0, 0>>, <<15, 25>>, <<399613320, -829987940>>}

\* the documents that differ from doc in latitude/longitude values only
Variants(doc) == {Doc("array", xs) : xs \in {ys \in [1..Len(doc.items) -> {SetItem(SetItem(r, "latitude", c[1]), "longitude", c[2]) : r \in WellFormed, c \in CoordInputs}] : \A k \in 1..Len(doc.items) : \E c \in CoordInputs : ys[k] = SetItem(SetItem(doc.items[k], "latitude", c[1]), "longitude", c[2])}}

\* the second run reads the first run's input with other latitude/longitude values
RerunOnVariant == pc = "done" /\ run = 1 /\ \E v \in Variants(infile) : Restart(v, "variant")

NextTwo == Load \/ GeocodeStable \/ Sleep \/ Write \/ WriteFails \/ Reload \/ CheckUnique \/ Report \/ RerunOnOutput \/ RerunOnVariant

SpecTwo == InitTwo /\ [][NextTwo]_vars

(***************************************************************************)
(* unique_latlon on its own: the run stands at line 84 with any records,   *)
(* as after a pass in which the geocoder matched none of them.             *)
(***************************************************************************)
Grid == 1..MaxLen

UniqueElems == {Obj([state |-> "OH", address |-> "a1", latitude |-> la, longitude |-> lo]) : la \in Grid, lo \in Grid}

RECURSIVE Loop(_)
Loop(n) == IF n = 0 THEN <<>> ELSE Loop(n - 1) \o <<"call", "sleep">>

InitUnique == \E recs \in SeqsUpTo(UniqueElems, MaxLen) :
                /\ infile = Doc("array", recs) /\ outfile = Dumps(recs) /\ pc = "unique" /\ records = recs /\ i = Len(recs) + 1
                /\ response = (IF recs = <<>> THEN NoReply ELSE Reply("ok", Body(TRUE, TRUE, <<>>))) /\ results = [k \in 1..Len(recs) |-> None]
                /\ failures = [k \in 1..Len(recs) |-> FailureLine(recs[k])] /\ error = "" /\ exit = -1 /\ stdout = <<"parsed", "written">>
                /\ calls = [k \in 1..Len(recs) |-> recs[k].fields.address] /\ trace = <<"load">> \o Loop(Len(recs)) \o <<"write", "reload">>
                /\ run = 1 /\ service = [a \in Addresses |-> NoReply] /\ first = NoFirst

NextUnique == CheckUnique \/ Report

SpecUnique == InitUnique /\ [][NextUnique]_vars

(***************************************************************************)
(* Properties.                                                             *)
(***************************************************************************)
Input == infile.items

N == Len(infile.items)

NetworkErrors == {"ConnectionError", "HTTPError"}

AfterLoop == {"write", "reload", "unique", "report", "done"}

\* r is v rounded to 6 decimals: a multiple of 1e-6 no further than half of 1e-6 from v
IsRounded(r, v) == r % 10 = 0 /\ Abs(r - v) <= 5

\* the positions of trace holding event e
At(e) == {k \in 1..Len(trace) : trace[k] = e}

\* the "{state} | {address}" lines of the input records 1..k whose call returned no-match, in order
RECURSIVE Unmatched(_)
Unmatched(k) == IF k = 0 THEN <<>> ELSE IF results[k].tag = "None" THEN Append(Unmatched(k - 1), Input[k].fields.state \o " | " \o Input[k].fields.address) ELSE Unmatched(k - 1)

IsArrayOfObjects(doc) == doc.kind = "array" /\ \A k \in 1..Len(doc.items) : doc.items[k].kind = "object"

\* C1: once load_json has run on a parsed root, it has raised ValueError if the root is
\* not an array of objects (not an array, or an array with a non-object element), and
\* otherwise has raised nothing and returned the parsed sequence, same length and order.
C1_LoadRejectsNonObjects == (trace # <<>> /\ infile.kind \in {"array", "object"}) => IF IsArrayOfObjects(infile) THEN (trace = <<"load">> => error = "" /\ records = Input) ELSE pc = "crashed" /\ error = "ValueError"

\* C2: when a geocoder call has returned, its result is no-match exactly when the
\* response's addressMatches list is empty or absent; otherwise the record carries the
\* matchedAddress of the first list entry, latitude = that entry's y and longitude =
\* that entry's x, both rounded to 6 decimals, whatever the later entries are.
C2_FirstMatch == pc = "sleep" => LET b == response.body  none == ~b.hasResult \/ ~b.hasMatches \/ b.addressMatches = <<>> IN
                   /\ response.kind = "ok"
                   /\ (Last(results).tag = "None") <=> none
                   /\ ~none => /\ Last(results).std_addr = b.addressMatches[1].matchedAddress
                               /\ records[i].fields.address = b.addressMatches[1].matchedAddress
                               /\ IsRounded(records[i].fields.latitude, b.addressMatches[1].coordinates.y)
                               /\ IsRounded(records[i].fields.longitude, b.addressMatches[1].coordinates.x)

C2_Witness == pc = "sleep" /\ Len(response.body.addressMatches) = 2 /\ response.body.addressMatches[1] # response.body.addressMatches[2] /\ Last(results).tag = "match" /\ records[i].fields.latitude # response.body.addressMatches[1].coordinates.y

\* C3: the geocoder is called once per record, in record order, with the address as
\* loaded, none skipped; when the loop has finished every record has been called and
\* the failure list holds exactly the "{state} | {address}" lines of the records whose
\* call returned no-match, built from the input values, in record order.
C3_OncePerRecord == /\ Len(calls) <= N /\ \A k \in 1..Len(calls) : calls[k] = Input[k].fields.address
                    /\ pc = "geocode" => Len(calls) = i - 1
                    /\ pc = "sleep" => Len(calls) = i /\ Len(results) = i
                    /\ pc \in AfterLoop => /\ Len(calls) = N /\ Len(results) = N
                                           /\ failures = Unmatched(N)
                                           /\ Cardinality({k \in 1..N : results[k].tag = "match"}) + Len(failures) = N

C3_Witness == pc = "write" /\ N = 2 /\ results[1].tag = "None" /\ results[2].tag = "match" /\ Len(failures) = 1

\* C4: on normal completion the output file holds as many records as the input, in the
\* same order; a record whose call returned no-match is identical to the input record;
\* a matched record has the standardized address and the rounded coordinates, and every
\* other field of the input record, state included, unchanged.
C4_OutputFrame == pc = "done" => /\ outfile.kind = "array" /\ Len(outfile.items) = N
                                 /\ \A k \in 1..N : LET inr == Input[k]  outr == outfile.items[k] IN
                                      IF results[k].tag = "None" THEN outr = inr
                                      ELSE /\ outr.kind = "object" /\ DOMAIN outr.fields = (DOMAIN inr.fields) \cup {"address", "latitude", "longitude"}
                                           /\ outr.fields.address = results[k].std_addr
                                           /\ IsRounded(outr.fields.latitude, results[k].lat) /\ IsRounded(outr.fields.longitude, results[k].lon)
                                           /\ \A f \in (DOMAIN inr.fields) \ {"address", "latitude", "longitude"} : outr.fields[f] = inr.fields[f]

C4_Witness == pc = "done" /\ N = 2 /\ Input[1] \in WellFormed /\ results[1].tag = "match" /\ results[2].tag = "None" /\ outfile.items[1] # Input[1] /\ outfile.items[1].fields.state = "OH"

\* C5: a geocoder call that fails (transport failure or non-success status) halts the
\* run at that record: it is the last call, made once, no later record is called, the
\* output file is not written, nothing after the loop runs, and the process has ended
\* with a non-zero status.
C5_NetworkErrorHalts == response.kind \in {"transport_error", "http_error"} =>
                          /\ pc = "crashed" /\ error \in NetworkErrors /\ exit = 1 /\ ~ENABLED Next
                          /\ Len(calls) = i /\ Len(results) = i - 1
                          /\ outfile \in OldOutputs /\ At("write") = {} /\ At("reload") = {} /\ At("unique") = {} /\ stdout = <<"parsed">>

C5_Witness == error = "HTTPError" /\ i = 2 /\ N = 2 /\ records[1] # Input[1] /\ outfile = Absent

\* C10: the load is the first stage; every call is preceded by the load or a sleep and
\* followed by a sleep; every sleep follows a call; the write happens at most once,
\* after the call and sleep of every record, and exactly once in a completed run; the
\* re-load follows the write and the uniqueness check follows the re-load; the records
\* in memory stay what was written.
C10_StageOrder == /\ pc # "load" => At("load") = {1}
                  /\ \A k \in At("call") : k > 1 /\ trace[k - 1] \in {"load", "sleep"} /\ (k < Len(trace) => trace[k + 1] = "sleep")
                  /\ \A k \in At("sleep") : k > 1 /\ trace[k - 1] = "call"
                  /\ Cardinality(At("write")) <= 1
                  /\ \A k \in At("write") : /\ Cardinality({j \in At("call") : j < k}) = Len(records) /\ Cardinality({j \in At("sleep") : j < k}) = Len(records)
                                            /\ \A j \in At("call") \cup At("sleep") : j < k
                                            /\ outfile = Dumps(records)
                  /\ \A k \in At("reload") : k > 1 /\ trace[k - 1] = "write"
                  /\ \A k \in At("unique") : k > 1 /\ trace[k - 1] = "reload"
                  /\ pc = "done" => Cardinality(At("write")) = 1 /\ Cardinality(At("reload")) = 1 /\ Cardinality(At("unique")) = 1

C10_Witness == pc = "done" /\ Len(records) = 2 /\ trace = <<"load", "call", "sleep", "call", "sleep", "write", "reload", "unique">> /\ records # Input

\* the coordinate pairs of the records in memory, in order
Pairs == [k \in 1..Len(records) |-> <<records[k].fields.latitude, records[k].fields.longitude>>]

\* C6: unique_latlon is true if and only if no two records at different positions have
\* the same (latitude, longitude) pair; so it is true of the empty and of the
\* one-record sequence, false of (1,1),(2,2),(1,1) and true of (1,1),(2,2),(3,3).
C6_UniqueIffDistinct == pc \in {"report", "done"} =>
                          /\ (stdout[3] = "unique") <=> \A j, k \in 1..Len(records) : j # k => ~(records[j].fields.latitude = records[k].fields.latitude /\ records[j].fields.longitude = records[k].fields.longitude)
                          /\ stdout[3] \in {"unique", "duplicate"}
                          /\ Len(records) <= 1 => stdout[3] = "unique"
                          /\ Pairs = <<<<1, 1>>, <<2, 2>>, <<1, 1>>>> => stdout[3] = "duplicate"
                          /\ Pairs = <<<<1, 1>>, <<2, 2>>, <<3, 3>>>> => stdout[3] = "unique"

C6_Witness == pc = "report" /\ Pairs = <<<<1, 1>>, <<2, 2>>, <<1, 1>>>> /\ stdout[3] = "duplicate"

Required == {"state", "address", "latitude", "longitude"}

\* an array of objects that each carry the four required fields
Complete(doc) == doc.kind = "array" /\ \A k \in 1..Len(doc.items) : doc.items[k].kind = "object" /\ Required \subseteq DOMAIN doc.items[k].fields

Completed == pc = "done" /\ exit = 0 /\ error = "" /\ outfile = Dumps(records) /\ Len(stdout) = 4

Halted == pc = "crashed" /\ exit = 1 /\ error \in NetworkErrors \cup {"OSError"}

\* C7 as stated: a run on an input whose root is an array never ends in an exception
\* other than a failed geocoder call or failed file I/O.
C7_ArrayRootCompletes == (infile.kind = "array" /\ pc = "crashed") => error \in NetworkErrors \cup {"OSError"}

\* C7, amended: a run on an array of objects that each carry state, address, latitude
\* and longitude ends, unless a geocoder call or file I/O fails, in normal completion
\* (exit 0, output written, report printed), however many records are unmatched and
\* whether or not coordinates are duplicated.
C7_ValidInputCompletes == Complete(infile) ~> (Completed \/ Halted)

C7_Witness == Completed /\ N = 2 /\ Len(failures) = 2 /\ stdout[3] = "duplicate"

\* the address, latitude and longitude of the output records are those of doc's records
SameValues(doc) == /\ Len(outfile.items) = Len(doc.items)
                   /\ \A k \in 1..Len(doc.items) : \A f \in {"address", "latitude", "longitude"} : outfile.items[k].fields[f] = doc.items[k].fields[f]

SecondDone(k) == run = 2 /\ first.kind = k /\ pc = "done"

\* C8 as stated: a second run on the first run's output, the service answering each
\* query as before, writes the same address, latitude and longitude for every record.
C8_Idempotent == SecondDone("output") => SameValues(first.outfile)

\* every standardized address the service has returned is answered, when asked, with
\* no match or with that same first match
Canonical == \A a \in Addresses : Matches(service[a].body) # <<>> =>
               LET e == service[a].body.addressMatches[1]  again == service[e.matchedAddress] IN Matches(again.body) = <<>> \/ again.body.addressMatches[1] = e

\* C8, amended: the second run's output has the same address, latitude and longitude
\* for every record as the first run's, provided the service answers every
\* standardized address it returned with no match or with a first match carrying that
\* same address and coordinates.
C8_IdempotentOnFixpoints == (SecondDone("output") /\ Canonical) => SameValues(first.outfile)

C8_Witness == SecondDone("output") /\ Canonical /\ N = 2 /\ first.infile # first.outfile /\ results[1].tag = "match" /\ results[2].tag = "None" /\ first.outfile.items[2].fields.address = "A2"

\* C9 as stated: a second run on an input that differs from the first run's in
\* latitude/longitude values only, the service answering as before, writes the same
\* output file and prints the same uniqueness verdict.
C9_InputCoordsIgnored == SecondDone("variant") => outfile = first.outfile /\ stdout[3] = first.stdout[3]

\* C9, amended: the two outputs agree on every record the geocoder matched and on every
\* field other than latitude/longitude of every unmatched record, which keeps the
\* latitude/longitude of its own input; when every record is matched the output file
\* and the uniqueness verdict are the same.
C9_MatchedIgnoreInputCoords == SecondDone("variant") =>
                                 /\ Len(outfile.items) = Len(first.outfile.items)
                                 /\ \A k \in 1..N : LET a == first.outfile.items[k]  b == outfile.items[k] IN
                                      /\ DOMAIN b.fields = DOMAIN a.fields
                                      /\ \A f \in (DOMAIN a.fields) \ {"latitude", "longitude"} : b.fields[f] = a.fields[f]
                                      /\ results[k].tag = "match" => b = a
                                      /\ results[k].tag = "None" => b = Input[k]
                                 /\ (\A k \in 1..N : results[k].tag = "match") => outfile = first.outfile /\ stdout[3] = first.stdout[3]

C9_Witness == SecondDone("variant") /\ N = 2 /\ infile # first.infile /\ results[1].tag = "match" /\ results[2].tag = "match" /\ outfile = first.outfile /\ Input[1].fields.latitude # first.infile.items[1].fields.latitude

====
